---- MODULE Spec2Model ----
(***************************************************************************)
(* Orchestration core of ai-worker-system: the status state machine and    *)
(* its transition tables, the task executor's dependency sort and the      *)
(* polling scheduler.                                                      *)
(***************************************************************************)
EXTENDS Integers, Sequences, FiniteSets, Bags, TLC

(***************************************************************************)
(* Bounds                                                                  *)
(***************************************************************************)
\* longest status history a state machine is driven to
MaxHistory == 4
\* most tasks in one bucket
MaxTasks == 3
\* most entries in one task's dependsOn
MaxDeps == 2
\* poll() invocations that may be in progress at once
MaxPolls == 3
\* work items in the store's partition of today
NumItems == 2
\* largest configured maxConcurrent
MaxConcurrent == 2
\* most intervals left armed at once
MaxTimers == 2
\* poll() invocations in progress at once where stop() or failing writes are explored
MaxOverlap == 2
\* most tasks in one batch handed to TaskExecutor.execute
MaxBatch == 3
\* most entries in the dependsOn of a task of a batch
MaxBatchDeps == 1
\* most backends in config/tools.json
MaxTools == 2
\* largest configured priority
MaxPriority == 1
\* last instant of the clock
MaxTime == 3
\* largest configured failureCooldownMs
MaxCooldown == 2
\* longest duration of an invocation
MaxDuration == 1
\* largest failureCount a record is driven to
MaxFailures == 2

VARIABLES
    \* ---- StateMachine<T> (src/src/core/state-machine.ts) ----
    smType,          \* this.type
    currentStatus,   \* this.currentStatus
    statusHistory,   \* this.statusHistory, the status of each entry
    smRet            \* the last call made on the machine and what it returned

VARIABLES
    \* ---- TaskExecutor (src/src/executors/ai-adapter.ts) ----
    tasks,           \* the bucket handed to executeTaskGroup
    sorted,          \* const sorted = this.sortTasksByDependency(tasks)
    sortPasses,      \* passes of the while loop the sort made
    execPc,          \* position in executeTaskGroup
    batch,           \* the tasks handed to execute(); status is updated in place
    run,             \* the executeTaskGroup invocation of each bucket
    runPc,           \* position in execute()
    allSuccess,      \* what execute() returned
    started,         \* ids of the tasks executeTask was called for
    savedTasks       \* the status of each task in the tasks.json of the feedback

VARIABLES
    \* ---- Scheduler (src/src/types/index.ts) and the feedback store ----
    running,         \* this.running
    timer,           \* this.timer is set
    liveTimers,      \* intervals armed by setInterval and not cleared
    maxConcurrent,   \* this.config.maxConcurrent
    activeTasks,     \* this.activeTasks
    itemType,        \* type of each stored work item
    store,           \* persisted status of each work item
    polls,           \* the poll() invocations in progress, a bag
    stopPc,          \* position of the stop() invocation that drains
    stopRet          \* how the last stop() call to return found the active set

VARIABLES
    \* ---- AICliAdapter (src/src/executors/ai-adapter.ts) and its files ----
    toolsConfig,     \* config/tools.json
    toolStatus,      \* storage/agent-status/status.json, by tool name
    now,             \* Date.now()
    call,            \* the execute() call: its locals and what it returned
    marking,         \* the markSuccess / markFailed call of each concurrent execute()
    failedRuns       \* failed invocations of each tool since its last success

smVars == <<smType, currentStatus, statusHistory, smRet>>

execVars == <<tasks, sorted, sortPasses, execPc, batch, run, runPc, allSuccess, started,
              savedTasks>>

schedVars == <<running, timer, liveTimers, maxConcurrent, activeTasks, itemType, store,
               polls, stopPc, stopRet>>

markVars == <<marking, failedRuns>>

toolVars == <<toolsConfig, toolStatus, now, call, marking, failedRuns>>

vars == <<smType, currentStatus, statusHistory, smRet, tasks, sorted, sortPasses, execPc,
          batch, run, runPc, allSuccess, started, savedTasks,
          running, timer, liveTimers, maxConcurrent, activeTasks, itemType, store,
          polls, stopPc, stopRet, toolsConfig, toolStatus, now, call, marking, failedRuns>>

(***************************************************************************)
(* Status types and transition tables                                      *)
(***************************************************************************)
ClarificationStatus ==
    {"pending", "processing", "awaiting", "confirmed", "cancelled", "expired", "failed"}

FeedbackStatus == {"pending", "analyzing", "executing", "completed", "failed"}

TaskStatus == {"pending", "in_progress", "completed", "failed"}

Domains == {"clarification", "feedback", "task"}

StatusesOf(type) ==
    IF type = "clarification" THEN ClarificationStatus
    ELSE IF type = "feedback" THEN FeedbackStatus
    ELSE TaskStatus

CLARIFICATION_TRANSITIONS_ExpiredRetry ==
    [pending    |-> <<"processing", "cancelled">>,
     processing |-> <<"awaiting", "confirmed", "failed">>,
     awaiting   |-> <<"confirmed", "cancelled", "expired">>,
     confirmed  |-> <<>>,
     cancelled  |-> <<>>,
     expired    |-> <<"pending">>,
     failed     |-> <<"pending">>]

CLARIFICATION_TRANSITIONS ==
    [pending    |-> <<"processing", "cancelled">>,
     processing |-> <<"awaiting", "confirmed", "failed">>,
     awaiting   |-> <<"confirmed", "cancelled", "expired">>,
     confirmed  |-> <<>>,
     cancelled  |-> <<>>,
     expired    |-> <<>>,
     failed     |-> <<"pending">>]

FEEDBACK_TRANSITIONS ==
    [pending   |-> <<"analyzing", "failed">>,
     analyzing |-> <<"executing", "failed">>,
     executing |-> <<"completed", "failed">>,
     completed |-> <<>>,
     failed    |-> <<"pending">>]

TASK_TRANSITIONS_NoRetry ==
    [pending     |-> <<"in_progress">>,
     in_progress |-> <<"completed", "failed">>,
     completed   |-> <<>>,
     failed      |-> <<>>]

TASK_TRANSITIONS ==
    [pending     |-> <<"in_progress">>,
     in_progress |-> <<"completed", "failed">>,
     completed   |-> <<>>,
     failed      |-> <<"pending">>]

\* Array.prototype.includes
Includes(arr, x) == \E i \in 1..Len(arr) : arr[i] = x

canTransitionAnyTable(cur, new, type) ==
    LET all == <<CLARIFICATION_TRANSITIONS, FEEDBACK_TRANSITIONS, TASK_TRANSITIONS>>
    IN  \E k \in 1..3 : cur \in DOMAIN all[k] /\ Includes(all[k][cur], new)

canTransition(cur, new, type) ==
    LET transitions ==
            IF type = "clarification" THEN CLARIFICATION_TRANSITIONS
            ELSE IF type = "feedback" THEN FEEDBACK_TRANSITIONS
            ELSE TASK_TRANSITIONS
        \* transitions[currentStatus] || []
        allowed == IF cur \in DOMAIN transitions THEN transitions[cur] ELSE <<>>
    IN  Includes(allowed, new)

isTerminalStatusNoExpired(status) ==
    Includes(<<"confirmed", "cancelled", "completed">>, status)

isTerminalStatus(status) ==
    Includes(<<"confirmed", "cancelled", "expired", "completed">>, status)

isFailedStatus(status) == status = "failed" \/ status = "expired"

(***************************************************************************)
(* StateMachine<T>                                                         *)
(***************************************************************************)
Ret(op, target, success, error, value) ==
    [op |-> op, target |-> target, success |-> success, error |-> error, value |-> value]

recordStateOverwrites(history, status) ==
    IF history = <<>> THEN <<status>> ELSE [history EXCEPT ![Len(history)] = status]

\* recordState: push {status, timestamp}
recordState(history, status) == Append(history, status)

\* constructor(initialStatus, type)
SMInit ==
    /\ smType \in Domains
    /\ currentStatus \in StatusesOf(smType)
    /\ statusHistory = recordState(<<>>, currentStatus)
    /\ smRet = Ret("new", currentStatus, TRUE, FALSE, FALSE)

TransitionUnchecked(newStatus) ==
    /\ newStatus \in StatusesOf(smType)
    /\ IF currentStatus = newStatus
       THEN /\ UNCHANGED <<currentStatus, statusHistory>>
            /\ smRet' = Ret("transition", newStatus, TRUE, FALSE, FALSE)
       ELSE /\ Len(statusHistory) < MaxHistory
            /\ currentStatus' = newStatus
            /\ statusHistory' = recordState(statusHistory, newStatus)
            /\ smRet' = Ret("transition", newStatus, TRUE, FALSE, FALSE)
    /\ UNCHANGED <<smType, execVars, schedVars, toolVars>>

TransitionAlwaysRecords(newStatus) ==
    /\ newStatus \in StatusesOf(smType)
    /\ IF ~canTransition(currentStatus, newStatus, smType) /\ currentStatus # newStatus
       THEN /\ UNCHANGED <<currentStatus, statusHistory>>
            /\ smRet' = Ret("transition", newStatus, FALSE, TRUE, FALSE)
       ELSE /\ Len(statusHistory) < MaxHistory
            /\ currentStatus' = newStatus
            /\ statusHistory' = recordState(statusHistory, newStatus)
            /\ smRet' = Ret("transition", newStatus, TRUE, FALSE, FALSE)
    /\ UNCHANGED <<smType, execVars, schedVars, toolVars>>

\* transition(newStatus)
Transition(newStatus) ==
    /\ newStatus \in StatusesOf(smType)
    /\ IF currentStatus = newStatus
       THEN /\ UNCHANGED <<currentStatus, statusHistory>>
            /\ smRet' = Ret("transition", newStatus, TRUE, FALSE, FALSE)
       ELSE IF ~canTransition(currentStatus, newStatus, smType)
       THEN /\ UNCHANGED <<currentStatus, statusHistory>>
            /\ smRet' = Ret("transition", newStatus, FALSE, TRUE, FALSE)
       ELSE /\ Len(statusHistory) < MaxHistory
            /\ currentStatus' = newStatus
            /\ statusHistory' = recordState(statusHistory, newStatus)
            /\ smRet' = Ret("transition", newStatus, TRUE, FALSE, FALSE)
    /\ UNCHANGED <<smType, execVars, schedVars, toolVars>>

ForceTransitionChecked(newStatus) ==
    /\ newStatus \in StatusesOf(smType)
    /\ Len(statusHistory) < MaxHistory
    /\ IF currentStatus = newStatus \/ ~canTransition(currentStatus, newStatus, smType)
       THEN UNCHANGED <<currentStatus, statusHistory>>
       ELSE /\ currentStatus' = newStatus
            /\ statusHistory' = recordState(statusHistory, newStatus)
    /\ smRet' = Ret("forceTransition", newStatus, TRUE, FALSE, FALSE)
    /\ UNCHANGED <<smType, execVars, schedVars, toolVars>>

\* forceTransition(newStatus)
ForceTransition(newStatus) ==
    /\ newStatus \in StatusesOf(smType)
    /\ Len(statusHistory) < MaxHistory
    /\ currentStatus' = newStatus
    /\ statusHistory' = recordState(statusHistory, newStatus)
    /\ smRet' = Ret("forceTransition", newStatus, TRUE, FALSE, FALSE)
    /\ UNCHANGED <<smType, execVars, schedVars, toolVars>>

\* isTerminal()
IsTerminal ==
    /\ smRet' = Ret("isTerminal", currentStatus, TRUE, FALSE, isTerminalStatus(currentStatus))
    /\ UNCHANGED <<smType, currentStatus, statusHistory, execVars, schedVars, toolVars>>

\* isFailed()
IsFailed ==
    /\ smRet' = Ret("isFailed", currentStatus, TRUE, FALSE, isFailedStatus(currentStatus))
    /\ UNCHANGED <<smType, currentStatus, statusHistory, execVars, schedVars, toolVars>>

DoTransition == \E t \in ClarificationStatus \cup FeedbackStatus \cup TaskStatus : Transition(t)

DoForceTransition ==
    \E t \in ClarificationStatus \cup FeedbackStatus \cup TaskStatus : ForceTransition(t)

\* every operation of the state machine
NextSM ==
    \/ DoTransition
    \/ DoForceTransition
    \/ IsTerminal
    \/ IsFailed

\* the state machine driven through transition() and the queries only
NextSMStrict ==
    \/ DoTransition
    \/ IsTerminal
    \/ IsFailed

(***************************************************************************)
(* TaskExecutor: the dependency sort of one bucket                         *)
(***************************************************************************)
\* ids of the tasks of a bucket of n tasks; ForeignId names a task that is
\* not in the bucket
ForeignId == 0

\* remaining.splice(i, 1)
Splice(arr, i) == [k \in 1..(Len(arr) - 1) |-> IF k < i THEN arr[k] ELSE arr[k + 1]]

allDepsProcessedAlways(task, processed) == TRUE

\* task.dependsOn.every((dep) => processed.has(dep))
allDepsProcessed(task, processed) == \A dep \in task.dependsOn : dep \in processed

\* for (let i = remaining.length - 1; i >= 0; i--) { ... }  (i is 1-based here)
RECURSIVE ScanPass(_, _, _, _)
ScanPass(remaining, out, processed, i) ==
    IF i = 0
    THEN [remaining |-> remaining, sorted |-> out, processed |-> processed]
    ELSE IF allDepsProcessed(remaining[i], processed)
         THEN ScanPass(Splice(remaining, i), Append(out, remaining[i]),
                       processed \cup {remaining[i].id}, i - 1)
         ELSE ScanPass(remaining, out, processed, i - 1)

\* while (remaining.length > 0 && iterations < maxIterations) { iterations++; ... }
RECURSIVE SortLoop(_, _, _, _, _)
SortLoop(remaining, out, processed, iterations, maxIterations) ==
    IF Len(remaining) > 0 /\ iterations < maxIterations
    THEN LET r == ScanPass(remaining, out, processed, Len(remaining))
         IN  SortLoop(r.remaining, r.sorted, r.processed, iterations + 1, maxIterations)
    ELSE [remaining |-> remaining, sorted |-> out, iterations |-> iterations]

sortTasksByDependencyPlacedOnly(ts) ==
    LET r == SortLoop(ts, <<>>, {}, 0, Len(ts) * 2)
    IN  r.sorted

\* sortTasksByDependency(tasks)
sortTasksByDependency(ts) ==
    LET r == SortLoop(ts, <<>>, {}, 0, Len(ts) * 2)
    IN  r.sorted \o r.remaining

\* the buckets executeTaskGroup is called with: n tasks with the ids 1..n in
\* list order, each depending on any ids of the bucket or on a foreign id
DependsOnSets(n) == {D \in SUBSET ((1..n) \cup {ForeignId}) : Cardinality(D) <= MaxDeps}

Buckets ==
    UNION {[1..n -> DependsOnSets(n)] : n \in 1..MaxTasks}

TaskList(deps) == [i \in DOMAIN deps |-> [id |-> i, dependsOn |-> deps[i]]]

Projects == {"backend", "frontend"}

\* an executeTaskGroup invocation: its position, the ids of `sorted`, the
\* index of the task the for loop is at, what executeTask returned, the
\* array saveTaskResult is writing and what the invocation returned
NoGroup == [pc |-> "idle", sorted |-> <<>>, i |-> 0, ok |-> FALSE, file |-> <<>>,
            result |-> FALSE]

\* no execute() call has been made
RunIdle ==
    /\ batch = <<>>
    /\ run = [g \in Projects |-> NoGroup]
    /\ runPc = "idle"
    /\ allSuccess = FALSE
    /\ started = {}
    /\ savedTasks = <<>>

ExecInit ==
    /\ tasks \in {TaskList(deps) : deps \in Buckets}
    /\ sorted = <<>>
    /\ sortPasses = 0
    /\ execPc = "start"
    /\ RunIdle

\* executeTaskGroup, up to `const sorted = this.sortTasksByDependency(tasks)`
SortTasks ==
    /\ execPc = "start"
    /\ sorted' = sortTasksByDependency(tasks)
    /\ sortPasses' = SortLoop(tasks, <<>>, {}, 0, Len(tasks) * 2).iterations
    /\ execPc' = "sorted"
    /\ UNCHANGED <<tasks, batch, run, runPc, allSuccess, started, savedTasks, smVars, schedVars, toolVars>>

NextSort ==
    \/ SortTasks

(***************************************************************************)
(* TaskExecutor: execute() and the run of the two buckets                  *)
(***************************************************************************)
\* the dependsOn of a task of a batch of n tasks
BatchDeps(n) ==
    {D \in SUBSET ((1..n) \cup {ForeignId}) : Cardinality(D) <= MaxBatchDeps}

\* the task lists execute() is called with: n tasks with the ids 1..n in list
\* order, of either project, with any dependsOn and any persisted status
Batches ==
    UNION {[1..n -> [project : Projects, dependsOn : BatchDeps(n), status : TaskStatus]]
            : n \in 1..MaxBatch}

BatchList(b) ==
    [i \in DOMAIN b |-> [id |-> i, project |-> b[i].project,
                         dependsOn |-> b[i].dependsOn, status |-> b[i].status]]

RunInit ==
    /\ batch \in {BatchList(b) : b \in Batches}
    /\ run = [g \in Projects |-> NoGroup]
    /\ runPc = "call"
    /\ allSuccess = FALSE
    /\ started = {}
    /\ savedTasks = [id \in DOMAIN batch |-> batch[id].status]

\* groupTasksByProject(tasks): the bucket of a project, in list order
groupTasksByProject(ts, g) ==
    IF g = "frontend"
    THEN SelectSeq(ts, LAMBDA t : t.project = "frontend")
    ELSE SelectSeq(ts, LAMBDA t : t.project # "frontend")

canStartAny(status) == TRUE

\* TaskStateMachine.canStart() of new TaskStateMachine(task.status)
canStart(status) == status = "pending"

checkDependenciesNone(task, allTasks) == TRUE

checkDependenciesAnyBucket(task, allTasks) ==
    \A depId \in task.dependsOn :
        /\ depId \in DOMAIN batch
        /\ batch[depId].status = "completed"

\* checkDependencies(task, allTasks), allTasks being the ids of `sorted`
checkDependencies(task, allTasks) ==
    \A depId \in task.dependsOn :
        /\ \E k \in 1..Len(allTasks) : allTasks[k] = depId
        /\ batch[depId].status = "completed"

\* execute(), up to `await Promise.all([...])`: both executeTaskGroup calls
\* are made and run to their first await; an empty bucket resolves to true
Execute ==
    /\ runPc = "call"
    /\ run' = [g \in Projects |->
                 IF Len(groupTasksByProject(batch, g)) > 0
                 THEN [NoGroup EXCEPT !.pc = "log"]
                 ELSE [NoGroup EXCEPT !.pc = "done", !.result = TRUE]]
    /\ runPc' = "groups"
    /\ UNCHANGED <<batch, allSuccess, started, savedTasks, tasks, sorted, sortPasses, execPc>>
    /\ UNCHANGED <<smVars, schedVars, toolVars>>

\* executeTaskGroup: const sorted = this.sortTasksByDependency(tasks)
SortGroup(g) ==
    /\ run[g].pc = "log"
    /\ LET s == sortTasksByDependency(groupTasksByProject(batch, g))
       IN  run' = [run EXCEPT ![g] = [pc |-> "loop",
                                      sorted |-> [k \in 1..Len(s) |-> s[k].id],
                                      i |-> 1,
                                      ok |-> FALSE,
                                      file |-> <<>>,
                                      result |-> FALSE]]
    /\ UNCHANGED <<batch, runPc, allSuccess, started, savedTasks, tasks, sorted, sortPasses, execPc>>
    /\ UNCHANGED <<smVars, schedVars, toolVars>>

\* saveTaskResult(feedbackId, task) up to its writeJSON: the array read from
\* tasks.json with the entry of the task replaced by the task
saveTaskResult(existingTasks, id, status) == [existingTasks EXCEPT ![id] = status]

\* the for loop goes on to the next task, or ends: return true
Advance(g) ==
    IF run[g].i = Len(run[g].sorted)
    THEN [run EXCEPT ![g].pc = "done", ![g].result = TRUE]
    ELSE [run EXCEPT ![g].pc = "loop", ![g].i = @ + 1]

GateTaskSkipFails(g) ==
    /\ run[g].pc = "loop"
    /\ LET id == run[g].sorted[run[g].i]
           task == batch[id]
       IN  IF ~canStart(task.status) \/ ~checkDependencies(task, run[g].sorted)
           THEN /\ run' = [run EXCEPT ![g].pc = "done", ![g].result = FALSE]
                /\ UNCHANGED <<batch, started>>
           ELSE /\ batch' = [batch EXCEPT ![id].status = "in_progress"]
                /\ started' = started \cup {id}
                /\ run' = [run EXCEPT ![g].pc = "write1",
                                      ![g].file = saveTaskResult(savedTasks, id, "in_progress")]
    /\ UNCHANGED <<runPc, allSuccess, savedTasks, tasks, sorted, sortPasses, execPc>>
    /\ UNCHANGED <<smVars, schedVars, toolVars>>

\* executeTaskGroup: one pass of the for loop up to `await this.executeTask`;
\* executeTask: task.status = 'in_progress', then saveTaskResult up to its
\* writeJSON (tasks.json is read and the entry of the task replaced)
GateTask(g) ==
    /\ run[g].pc = "loop"
    /\ LET id == run[g].sorted[run[g].i]
           task == batch[id]
       IN  IF ~canStart(task.status)
           THEN /\ run' = Advance(g)
                /\ UNCHANGED <<batch, started>>
           ELSE IF ~checkDependencies(task, run[g].sorted)
           THEN /\ run' = Advance(g)
                /\ UNCHANGED <<batch, started>>
           ELSE /\ batch' = [batch EXCEPT ![id].status = "in_progress"]
                /\ started' = started \cup {id}
                /\ run' = [run EXCEPT ![g].pc = "write1",
                                      ![g].file = saveTaskResult(savedTasks, id, "in_progress")]
    /\ UNCHANGED <<runPc, allSuccess, savedTasks, tasks, sorted, sortPasses, execPc>>
    /\ UNCHANGED <<smVars, schedVars, toolVars>>

FinishTaskContinues(g) ==
    /\ run[g].pc = "exec"
    /\ LET id == run[g].sorted[run[g].i]
       IN  \E outcome \in {"returns", "throws"} :
            IF outcome = "returns"
            THEN /\ batch' = [batch EXCEPT ![id].status = "completed"]
                 /\ run' = [run EXCEPT ![g].pc = "write2", ![g].ok = TRUE,
                                       ![g].file = saveTaskResult(savedTasks, id, "completed")]
            ELSE /\ batch' = [batch EXCEPT ![id].status = "failed"]
                 /\ run' = [run EXCEPT ![g].pc = "write2", ![g].ok = TRUE,
                                       ![g].file = saveTaskResult(savedTasks, id, "failed")]
    /\ UNCHANGED <<runPc, allSuccess, started, savedTasks, tasks, sorted, sortPasses, execPc>>
    /\ UNCHANGED <<smVars, schedVars, toolVars>>

FinishTaskAbortsBatch(g) ==
    /\ run[g].pc = "exec"
    /\ LET id == run[g].sorted[run[g].i]
       IN  \E outcome \in {"returns", "throws"} :
            IF outcome = "returns"
            THEN /\ batch' = [batch EXCEPT ![id].status = "completed"]
                 /\ run' = [run EXCEPT ![g].pc = "write2", ![g].ok = TRUE,
                                       ![g].file = saveTaskResult(savedTasks, id, "completed")]
            ELSE /\ batch' = [batch EXCEPT ![id].status = "failed"]
                 /\ run' = [h \in Projects |-> [run[h] EXCEPT !.pc = "done", !.result = FALSE]]
    /\ UNCHANGED <<runPc, allSuccess, started, savedTasks, tasks, sorted, sortPasses, execPc>>
    /\ UNCHANGED <<smVars, schedVars, toolVars>>

\* executeTask from `await aiAdapter.execute(prompt)` on, up to the writeJSON
\* of its saveTaskResult.  aiAdapter.execute returns a result of exit code 0
\* or throws: the task is completed and executeTask is to return true, or
\* the catch marks it failed and executeTask is to return false
FinishTask(g) ==
    /\ run[g].pc = "exec"
    /\ LET id == run[g].sorted[run[g].i]
       IN  \E outcome \in {"returns", "throws"} :
            IF outcome = "returns"
            THEN /\ batch' = [batch EXCEPT ![id].status = "completed"]
                 /\ run' = [run EXCEPT ![g].pc = "write2", ![g].ok = TRUE,
                                       ![g].file = saveTaskResult(savedTasks, id, "completed")]
            ELSE /\ batch' = [batch EXCEPT ![id].status = "failed"]
                 /\ run' = [run EXCEPT ![g].pc = "write2", ![g].ok = FALSE,
                                       ![g].file = saveTaskResult(savedTasks, id, "failed")]
    /\ UNCHANGED <<runPc, allSuccess, started, savedTasks, tasks, sorted, sortPasses, execPc>>
    /\ UNCHANGED <<smVars, schedVars, toolVars>>

\* saveTaskResult of the status in_progress: writeJSON writes the array and
\* executeTask goes on to `await aiAdapter.execute(prompt)`
SaveStarted(g) ==
    /\ run[g].pc = "write1"
    /\ savedTasks' = run[g].file
    /\ run' = [run EXCEPT ![g].pc = "exec", ![g].file = <<>>]
    /\ UNCHANGED <<batch, runPc, allSuccess, started, tasks, sorted, sortPasses, execPc>>
    /\ UNCHANGED <<smVars, schedVars, toolVars>>

\* saveTaskResult of the status completed or failed: writeJSON writes the
\* array and executeTask returns.  executeTaskGroup goes on with the loop
\* when it returned true and returns false when it returned false
SaveFinished(g) ==
    /\ run[g].pc = "write2"
    /\ savedTasks' = run[g].file
    /\ run' = IF run[g].ok
              THEN [Advance(g) EXCEPT ![g].file = <<>>]
              ELSE [run EXCEPT ![g].pc = "done", ![g].file = <<>>, ![g].result = FALSE]
    /\ UNCHANGED <<batch, runPc, allSuccess, started, tasks, sorted, sortPasses, execPc>>
    /\ UNCHANGED <<smVars, schedVars, toolVars>>

\* execute(), after Promise.all: allSuccess = results.every((r) => r)
ExecuteReturn ==
    /\ runPc = "groups"
    /\ \A g \in Projects : run[g].pc = "done"
    /\ allSuccess' = \A g \in Projects : run[g].result
    /\ runPc' = "done"
    /\ UNCHANGED <<batch, run, started, savedTasks, tasks, sorted, sortPasses, execPc>>
    /\ UNCHANGED <<smVars, schedVars, toolVars>>

NextExec ==
    \/ Execute
    \/ \E g \in Projects : SortGroup(g)
    \/ \E g \in Projects : GateTask(g)
    \/ \E g \in Projects : FinishTask(g)
    \/ \E g \in Projects : SaveStarted(g)
    \/ \E g \in Projects : SaveFinished(g)
    \/ ExecuteReturn

(***************************************************************************)
(* AICliAdapter: the ordered tool pool and execute()                       *)
(***************************************************************************)
ToolNames == {"claude", "gemini"}

\* this.adapters, filled by the constructor
adapters == {"claude"}

\* configA?.priority || 999
NoPriority == 999

\* statusMap.get(name) || {name, available: true, failureCount: 0}; also a
\* tool without a record in status.json.  lastFailed, lastSuccess and
\* responseTimeMs are 0 while they are undefined
NoRecord ==
    [exists |-> FALSE, available |-> TRUE, lastFailed |-> 0, lastSuccess |-> 0,
     failureCount |-> 0, responseTimeMs |-> 0]

ToolConfigs == [name : ToolNames, enabled : BOOLEAN, priority : 0..MaxPriority]

\* the contents config/tools.json may have; present is false when the file
\* cannot be read
Configs ==
    {[present |-> FALSE, tools |-> <<>>, failureCooldownMs |-> 1]}
    \cup {[present |-> TRUE, tools |-> ts, failureCooldownMs |-> c] :
            ts \in UNION {[1..n -> ToolConfigs] : n \in 0..MaxTools}, c \in 1..MaxCooldown}

\* what a backend does when it is invoked: exit code 0, a non-zero exit whose
\* error text matches a quota pattern, a non-zero exit whose text matches
\* none, or an exception in the try block
Outcomes == {"ok", "quota", "hard", "throws"}

\* isQuotaError(result.output) || isQuotaError(lastError || '')
isQuotaError(outcome) == outcome = "quota"

NoError == [at |-> 0, text |-> "undefined"]

NoRet == [kind |-> "none", at |-> 0, tool |-> "none", exitCode |-> 0, error |-> "none",
          lastError |-> NoError]

NoCall ==
    [pc |-> "idle", preferredTool |-> "none", selectedAt |-> 0, toolPool |-> <<>>,
     outcomes |-> <<>>, at |-> 0, lastError |-> NoError, invoked |-> <<>>, ret |-> NoRet]

\* the execute() calls that run at the same time: one of each bucket of a batch
Callers == {"backend", "frontend"}

NoMark == [pc |-> "idle", tool |-> "none", updates |-> "none", statuses |-> "none"]

\* no execute() call is marking a tool
MarkIdle ==
    /\ marking = [c \in Callers |-> NoMark]
    /\ failedRuns = [n \in ToolNames |-> 0]

ToolInit ==
    /\ toolsConfig \in Configs
    /\ toolStatus = [n \in ToolNames |-> NoRecord]
    /\ now = 1
    /\ call = NoCall
    /\ MarkIdle

\* status.lastFailed && now - (status.lastFailed || 0) < this.failureCooldownMs
inCooldown(status, t, failureCooldownMs) ==
    status.lastFailed # 0 /\ t - status.lastFailed < failureCooldownMs

\* config.tools.find((t) => t.name === a.name)?.priority || 999
priorityOf(config, name) ==
    LET found == SelectSeq(config.tools, LAMBDA t : t.name = name)
    IN  IF Len(found) = 0 \/ Head(found).priority = 0 THEN NoPriority
        ELSE Head(found).priority

\* the comparator of tools.sort: negative when a goes first
compareTools(a, b) ==
    IF a.available # b.available THEN (IF a.available THEN -1 ELSE 1)
    ELSE IF a.priority # b.priority THEN a.priority - b.priority
    \* (a.responseTimeMs || Infinity) - (b.responseTimeMs || Infinity)
    ELSE IF a.responseTimeMs = 0 /\ b.responseTimeMs = 0 THEN 0
    ELSE IF a.responseTimeMs = 0 THEN 1
    ELSE IF b.responseTimeMs = 0 THEN -1
    ELSE a.responseTimeMs - b.responseTimeMs

\* Array.prototype.sort is stable: x goes after the last entry that is not after it
InsertTool(pool, x) ==
    LET notAfter == {k \in 1..Len(pool) : compareTools(pool[k], x) <= 0}
        k == IF notAfter = {} THEN 0 ELSE CHOOSE m \in notAfter : \A o \in notAfter : o <= m
    IN  SubSeq(pool, 1, k) \o <<x>> \o SubSeq(pool, k + 1, Len(pool))

RECURSIVE SortTools(_)
SortTools(tools) ==
    IF Len(tools) = 0 THEN <<>>
    ELSE InsertTool(SortTools(SubSeq(tools, 1, Len(tools) - 1)), tools[Len(tools)])

\* getOrderedToolPool(): every enabled tool with its record, marked
\* unavailable while it is in its cooldown, then sorted
getOrderedToolPool(config, statuses, t) ==
    LET enabled == SelectSeq(config.tools, LAMBDA c : c.enabled)
        entry(c) ==
            LET cooling == inCooldown(statuses[c.name], t, config.failureCooldownMs)
            IN  [name |-> c.name,
                 available |-> IF cooling THEN FALSE ELSE statuses[c.name].available,
                 inCooldown |-> cooling,
                 priority |-> priorityOf(config, c.name),
                 responseTimeMs |-> statuses[c.name].responseTimeMs]
    IN  SortTools([k \in 1..Len(enabled) |-> entry(enabled[k])])

\* markSuccess(toolName, responseTimeMs) through updateToolStatus
markSuccess(statuses, toolName, responseTimeMs, t) ==
    [statuses EXCEPT ![toolName] =
        [@ EXCEPT !.exists = TRUE, !.available = TRUE, !.lastSuccess = t,
                  !.responseTimeMs = responseTimeMs, !.failureCount = 0]]

\* markFailed(toolName, reason) through updateToolStatus
markFailed(statuses, toolName, reason, t) ==
    [statuses EXCEPT ![toolName] =
        [@ EXCEPT !.exists = TRUE, !.available = (reason # "quota"), !.lastFailed = t,
                  !.failureCount = @ + 1]]

\* the for loop of execute from entry `from` on: the first entry that is the
\* preferred tool (if one is given) and has an adapter, 0 when there is none
NextCandidate(pool, from, preferredTool) ==
    LET ok == {j \in from..Len(pool) :
                /\ preferredTool = "none" \/ pool[j].name = preferredTool
                /\ pool[j].name \in adapters}
    IN  IF ok = {} THEN 0 ELSE CHOOSE j \in ok : \A o \in ok : j <= o

\* the call ends with `throw new Error(error)`
Raised(c, error) ==
    [c EXCEPT !.pc = "done",
              !.ret = [kind |-> "raised", at |-> 0, tool |-> "none", exitCode |-> 0,
                       error |-> error, lastError |-> c.lastError]]

\* the failures the outcomes of a call can add to a record stay within MaxFailures
WithinFailures(outs) ==
    \A n \in ToolNames :
        toolStatus[n].failureCount + Cardinality({i \in DOMAIN outs : outs[i] # "ok"})
            <= MaxFailures

\* execute(prompt, options), up to the first `await adapter.execute(...)`
ExecuteCall ==
    /\ call.pc \in {"idle", "done"}
    /\ \E preferredTool \in {"none"} \cup ToolNames :
        LET c0 == [NoCall EXCEPT !.preferredTool = preferredTool, !.selectedAt = now]
        IN  IF ~toolsConfig.present
            THEN call' = Raised(c0, "Tools config not found")
            ELSE \E toolPool \in {getOrderedToolPool(toolsConfig, toolStatus, now)} :
                     IF Len(toolPool) = 0
                     THEN call' = Raised(c0, "No available AI tools")
                     ELSE \E outs \in [1..Len(toolPool) -> Outcomes] :
                            /\ WithinFailures(outs)
                            /\ LET c1 == [c0 EXCEPT !.toolPool = toolPool, !.outcomes = outs]
                                   j == NextCandidate(toolPool, 1, preferredTool)
                               IN  IF j = 0
                                   THEN call' = Raised(c1, "All tools failed")
                                   ELSE call' = [c1 EXCEPT !.pc = "invoke", !.at = j]
    /\ UNCHANGED <<toolsConfig, toolStatus, now>>
    /\ UNCHANGED <<smVars, execVars, schedVars, markVars>>

\* the loop goes on after a quota failure, or runs out: throw
Failover(c) ==
    LET j == NextCandidate(c.toolPool, c.at + 1, c.preferredTool)
    IN  IF j = 0 THEN Raised(c, "All tools failed") ELSE [c EXCEPT !.at = j]

InvokeHardContinues ==
    /\ call.pc = "invoke"
    /\ LET tool == call.toolPool[call.at]
           outcome == call.outcomes[call.at]
           c1 == [call EXCEPT !.invoked = Append(@, call.at)]
           c2 == [c1 EXCEPT !.lastError = [at |-> call.at, text |-> outcome]]
       IN  IF outcome = "ok"
           THEN \E duration \in 1..MaxDuration :
                  /\ toolStatus' = markSuccess(toolStatus, tool.name, duration, now)
                  /\ call' = [c1 EXCEPT !.pc = "done",
                                        !.ret = [kind |-> "returned", at |-> call.at,
                                                 tool |-> tool.name, exitCode |-> 0,
                                                 error |-> "none", lastError |-> NoError]]
           ELSE /\ toolStatus' = markFailed(toolStatus, tool.name,
                                            IF isQuotaError(outcome) THEN "quota" ELSE "error",
                                            now)
                /\ call' = Failover(c2)
    /\ UNCHANGED <<toolsConfig, now>>
    /\ UNCHANGED <<smVars, execVars, schedVars, markVars>>

InvokeReturnsFailure ==
    /\ call.pc = "invoke"
    /\ LET tool == call.toolPool[call.at]
           outcome == call.outcomes[call.at]
           c1 == [call EXCEPT !.invoked = Append(@, call.at)]
           c2 == [c1 EXCEPT !.lastError = [at |-> call.at, text |-> outcome]]
       IN  IF outcome = "ok"
           THEN \E duration \in 1..MaxDuration :
                  /\ toolStatus' = markSuccess(toolStatus, tool.name, duration, now)
                  /\ call' = [c1 EXCEPT !.pc = "done",
                                        !.ret = [kind |-> "returned", at |-> call.at,
                                                 tool |-> tool.name, exitCode |-> 0,
                                                 error |-> "none", lastError |-> NoError]]
           ELSE IF isQuotaError(outcome)
           THEN /\ toolStatus' = markFailed(toolStatus, tool.name, "quota", now)
                /\ call' = Failover(c2)
           ELSE /\ toolStatus' = markFailed(toolStatus, tool.name, "error", now)
                /\ call' = [c2 EXCEPT !.pc = "done",
                                      !.ret = [kind |-> "returned", at |-> call.at,
                                               tool |-> tool.name, exitCode |-> 1,
                                               error |-> "none", lastError |-> c2.lastError]]
    /\ UNCHANGED <<toolsConfig, now>>
    /\ UNCHANGED <<smVars, execVars, schedVars, markVars>>

\* execute: one pass of the for loop from `await adapter.execute(...)` on.
\* Exit code 0: markSuccess, return result.  Quota failure: markFailed and on
\* to the next candidate.  Any other failure, or an exception in the try
\* block: markFailed(tool, 'error'), break, throw
Invoke ==
    /\ call.pc = "invoke"
    /\ LET tool == call.toolPool[call.at]
           outcome == call.outcomes[call.at]
           c1 == [call EXCEPT !.invoked = Append(@, call.at)]
           c2 == [c1 EXCEPT !.lastError = [at |-> call.at, text |-> outcome]]
       IN  IF outcome = "ok"
           THEN \E duration \in 1..MaxDuration :
                  /\ toolStatus' = markSuccess(toolStatus, tool.name, duration, now)
                  /\ call' = [c1 EXCEPT !.pc = "done",
                                        !.ret = [kind |-> "returned", at |-> call.at,
                                                 tool |-> tool.name, exitCode |-> 0,
                                                 error |-> "none", lastError |-> NoError]]
           ELSE IF isQuotaError(outcome)
           THEN /\ toolStatus' = markFailed(toolStatus, tool.name, "quota", now)
                /\ call' = Failover(c2)
           ELSE /\ toolStatus' = markFailed(toolStatus, tool.name, "error", now)
                /\ call' = Raised(c2, "All tools failed")
    /\ UNCHANGED <<toolsConfig, now>>
    /\ UNCHANGED <<smVars, execVars, schedVars, markVars>>

TickEndsCooldown ==
    /\ now < MaxTime
    /\ now' = now + 1
    /\ toolStatus' =
        [n \in ToolNames |->
            IF /\ toolsConfig.present
               /\ inCooldown(toolStatus[n], now, toolsConfig.failureCooldownMs)
               /\ ~inCooldown(toolStatus[n], now + 1, toolsConfig.failureCooldownMs)
            THEN [toolStatus[n] EXCEPT !.available = TRUE]
            ELSE toolStatus[n]]
    /\ UNCHANGED <<toolsConfig, call>>
    /\ UNCHANGED <<smVars, execVars, schedVars, markVars>>

\* time passes
Tick ==
    /\ now < MaxTime
    /\ now' = now + 1
    /\ UNCHANGED <<toolsConfig, toolStatus, call>>
    /\ UNCHANGED <<smVars, execVars, schedVars, markVars>>

NextTool ==
    \/ ExecuteCall
    \/ Invoke
    \/ Tick

(***************************************************************************)
(* markSuccess / markFailed of execute() calls that run at the same time   *)
(***************************************************************************)
\* the updates markSuccess hands to updateToolStatus
successUpdates(responseTimeMs, t) ==
    [available |-> TRUE, lastFailed |-> 0, lastSuccess |-> t,
     responseTimeMs |-> responseTimeMs, failureCount |-> 0]

\* the updates markFailed hands to updateToolStatus
failureUpdates(reason, t, failureCount) ==
    [available |-> (reason # "quota"), lastFailed |-> t, lastSuccess |-> 0,
     responseTimeMs |-> 0, failureCount |-> failureCount]

\* updateToolStatus: { ...statuses[index], ...updates }, or the new record
\* pushed; a field that is 0 in updates is one the updates do not name
\* (failureCount is named by both callers)
mergeToolStatus(statuses, toolName, updates) ==
    [statuses EXCEPT ![toolName] =
        [exists |-> TRUE,
         available |-> updates.available,
         lastFailed |-> IF updates.lastFailed # 0 THEN updates.lastFailed ELSE @.lastFailed,
         lastSuccess |-> IF updates.lastSuccess # 0 THEN updates.lastSuccess ELSE @.lastSuccess,
         failureCount |-> updates.failureCount,
         responseTimeMs |-> IF updates.responseTimeMs # 0 THEN updates.responseTimeMs
                            ELSE @.responseTimeMs]]

\* execute() of caller c: `await adapter.execute(...)` returns or throws.
\* Exit code 0: markSuccess builds its updates and calls updateToolStatus;
\* otherwise markFailed is called and awaits loadToolStatus
MarkBegin(c) ==
    /\ marking[c].pc = "idle"
    /\ \E tool \in adapters, outcome \in Outcomes :
        IF outcome = "ok"
        THEN \E duration \in 1..MaxDuration :
               /\ marking' = [marking EXCEPT ![c] =
                                [pc |-> "load", tool |-> tool,
                                 updates |-> successUpdates(duration, now),
                                 statuses |-> "none"]]
               /\ failedRuns' = [failedRuns EXCEPT ![tool] = 0]
        ELSE /\ failedRuns[tool] < MaxFailures
             /\ marking' = [marking EXCEPT ![c] =
                              [pc |-> "read", tool |-> tool,
                               updates |-> IF isQuotaError(outcome) THEN "quota" ELSE "error",
                               statuses |-> "none"]]
             /\ failedRuns' = [failedRuns EXCEPT ![tool] = @ + 1]
    /\ UNCHANGED <<toolsConfig, toolStatus, now, call>>
    /\ UNCHANGED <<smVars, execVars, schedVars>>

\* markFailed: loadToolStatus() returns, failureCount and the updates are
\* computed, updateToolStatus is called
MarkRead(c) ==
    /\ marking[c].pc = "read"
    /\ toolStatus[marking[c].tool].failureCount < MaxFailures
    /\ marking' = [marking EXCEPT ![c] =
                     [@ EXCEPT !.pc = "load",
                               !.updates = failureUpdates(marking[c].updates, now,
                                               toolStatus[marking[c].tool].failureCount + 1)]]
    /\ UNCHANGED <<toolsConfig, toolStatus, now, call, failedRuns>>
    /\ UNCHANGED <<smVars, execVars, schedVars>>

\* updateToolStatus: loadToolStatus() returns, the updates are merged into
\* the array read, saveToolStatus is called
MarkLoad(c) ==
    /\ marking[c].pc = "load"
    /\ marking' = [marking EXCEPT ![c] =
                     [@ EXCEPT !.pc = "save",
                               !.statuses = mergeToolStatus(toolStatus, marking[c].tool,
                                                            marking[c].updates)]]
    /\ UNCHANGED <<toolsConfig, toolStatus, now, call, failedRuns>>
    /\ UNCHANGED <<smVars, execVars, schedVars>>

\* saveToolStatus writes the array; updateToolStatus and the mark return
MarkSave(c) ==
    /\ marking[c].pc = "save"
    /\ toolStatus' = marking[c].statuses
    /\ marking' = [marking EXCEPT ![c] = NoMark]
    /\ UNCHANGED <<toolsConfig, now, call, failedRuns>>
    /\ UNCHANGED <<smVars, execVars, schedVars>>

NextToolRace ==
    \/ \E c \in Callers : MarkBegin(c)
    \/ \E c \in Callers : MarkRead(c)
    \/ \E c \in Callers : MarkLoad(c)
    \/ \E c \in Callers : MarkSave(c)
    \/ Tick

(***************************************************************************)
(* The feedback store, as the scheduler and the handlers use it            *)
(***************************************************************************)
Items == 1..NumItems

\* listFeedbacksByDate has loaded the first k entries: one more loadFeedback
LoadNext(loaded) ==
    LET i == Len(loaded) + 1
    IN  Append(loaded, [id |-> i, type |-> itemType[i], status |-> store[i]])

\* listPendingFeedbacks: the filter applied to the loaded list
listPendingFeedbacks(loaded) ==
    [clarifications |->
        SelectSeq(loaded, LAMBDA fb : fb.type = "clarification" /\ fb.status = "pending"),
     feedbacks |->
        SelectSeq(loaded, LAMBDA fb : fb.type # "clarification"
                                      /\ (fb.status = "pending" \/ fb.status = "analyzing"))]

\* updateFeedbackStatus(feedbackId, newStatus) / FeedbackHandler.updateStatus
updateFeedbackStatus(st, id, newStatus) == [st EXCEPT ![id] = newStatus]

\* the status a StateMachine holds after transition(newStatus)
transitionStatus(type, cur, new) ==
    IF cur = new THEN cur
    ELSE IF ~canTransition(cur, new, type) THEN cur
    ELSE new

(***************************************************************************)
(* Scheduler                                                               *)
(***************************************************************************)
NoItem == 0

\* a poll() invocation that has just been entered.  pc is its position,
\* fromStart tells the poll() awaited by start() from one called by a timer
\* tick or directly, loaded is the list listFeedbacksByDate has built so far,
\* clarifications and feedbacks are what is left of `pending` to iterate,
\* cur is the id of the item being handled, obj the status of the Feedback
\* object FeedbackHandler.execute has loaded and ret what execute has returned
NewPoll(fromStart) ==
    [pc |-> "list", fromStart |-> fromStart, loaded |-> <<>>, clarifications |-> <<>>,
     feedbacks |-> <<>>, cur |-> NoItem, obj |-> "none", ret |-> "none"]

\* positions inside handleClarification / handleFeedback
HandlerPcs ==
    {"c_processing", "c_result",
     "f_analyzing", "f_load", "f_executing", "f_save", "f_final",
     "h_finally", "h_caught"}

\* the handler invocations in flight, and those for one id
Handlers == {r \in BagToSet(polls) : r.pc \in HandlerPcs}

InFlight == BagCardinality([r \in Handlers |-> polls[r]])

InFlightFor(id) == BagCardinality([r \in {h \in Handlers : h.cur = id} |-> polls[r]])

\* the stores of NumItems items: the clarifications were created first
ItemTypes ==
    {[i \in Items |-> IF i <= k THEN "clarification" ELSE "feedback"] : k \in 0..NumItems}

SchedInit ==
    /\ running = FALSE
    /\ timer = FALSE
    /\ liveTimers = 0
    /\ maxConcurrent \in 1..MaxConcurrent
    /\ activeTasks = {}
    /\ itemType \in ItemTypes
    /\ store = [i \in Items |-> "pending"]
    /\ polls = EmptyBag
    /\ stopPc = "idle"
    /\ stopRet = "none"

\* room for one more poll() invocation
HasRoom == BagCardinality(polls) < MaxPolls

\* the invocation r moves to r2
Move(r, r2) == polls' = (polls (-) SetToBag({r})) (+) SetToBag({r2})

canStartTaskAlways == TRUE

\* canStartTask()
canStartTask == Cardinality(activeTasks) < maxConcurrent

\* poll(): if (!this.running) return; else await listPendingFeedbacks()
EnterPoll(fromStart) ==
    IF ~running'
    THEN UNCHANGED polls
    ELSE polls' = polls (+) SetToBag({NewPoll(fromStart)})

\* start(), up to `await this.poll()`
StartCall ==
    /\ IF running
       THEN UNCHANGED <<running, polls>>
       ELSE /\ HasRoom
            /\ running' = TRUE
            /\ EnterPoll(TRUE)
    /\ UNCHANGED <<timer, liveTimers, maxConcurrent, activeTasks, itemType, store, stopPc, stopRet>>
    /\ UNCHANGED <<smVars, execVars, toolVars>>

\* start(), after `await this.poll()`: this.timer = setInterval(...)
ArmTimer(r) ==
    /\ r.pc = "arm"
    /\ liveTimers < MaxTimers
    /\ liveTimers' = liveTimers + 1
    /\ timer' = TRUE
    /\ polls' = polls (-) SetToBag({r})
    /\ UNCHANGED <<running, maxConcurrent, activeTasks, itemType, store, stopPc, stopRet>>
    /\ UNCHANGED <<smVars, execVars, toolVars>>

\* stop(), up to the first test of the drain loop: it returns at once when
\* the scheduler is not running, and when the active set is empty.  One
\* stop() drains at a time
StopCall ==
    /\ IF ~running
       THEN /\ stopRet' = IF Cardinality(activeTasks) > 0 THEN "busy" ELSE "empty"
            /\ UNCHANGED <<running, timer, liveTimers, stopPc>>
       ELSE /\ stopPc = "idle"
            /\ running' = FALSE
            /\ timer' = FALSE
            /\ liveTimers' = IF timer THEN liveTimers - 1 ELSE liveTimers
            /\ IF Cardinality(activeTasks) > 0
               THEN stopPc' = "draining" /\ UNCHANGED stopRet
               ELSE stopPc' = "idle" /\ stopRet' = "empty"
    /\ UNCHANGED <<maxConcurrent, activeTasks, itemType, store, polls>>
    /\ UNCHANGED <<smVars, execVars, toolVars>>

\* stop(): while (this.activeTasks.size > 0) await sleep(100); then it returns
StopDrain ==
    /\ stopPc = "draining"
    /\ Cardinality(activeTasks) = 0
    /\ stopPc' = "idle"
    /\ stopRet' = "empty"
    /\ UNCHANGED <<running, timer, liveTimers, maxConcurrent, activeTasks, itemType, store,
                   polls>>
    /\ UNCHANGED <<smVars, execVars, toolVars>>

\* a tick of an armed interval: this.poll()
TimerTick ==
    /\ liveTimers > 0
    /\ HasRoom
    /\ UNCHANGED running
    /\ EnterPoll(FALSE)
    /\ UNCHANGED <<timer, liveTimers, maxConcurrent, activeTasks, itemType, store, stopPc, stopRet>>
    /\ UNCHANGED <<smVars, execVars, toolVars>>

\* poll() called directly
PollCall ==
    /\ HasRoom
    /\ UNCHANGED running
    /\ EnterPoll(FALSE)
    /\ UNCHANGED <<timer, liveTimers, maxConcurrent, activeTasks, itemType, store, stopPc, stopRet>>
    /\ UNCHANGED <<smVars, execVars, toolVars>>

\* poll(): listPendingFeedbacks loads one more entry; after the last one it
\* filters the list and returns it
ListStep(r) ==
    /\ r.pc = "list"
    /\ LET loaded == LoadNext(r.loaded)
       IN  IF Len(loaded) < NumItems
           THEN Move(r, [r EXCEPT !.loaded = loaded])
           ELSE LET pending == listPendingFeedbacks(loaded)
                IN  Move(r, [r EXCEPT !.loaded = <<>>,
                                      !.clarifications = pending.clarifications,
                                      !.feedbacks = pending.feedbacks,
                                      !.pc = "loop"])
    /\ UNCHANGED <<running, timer, liveTimers, maxConcurrent, activeTasks, itemType, store,
                   stopPc, stopRet>>
    /\ UNCHANGED <<smVars, execVars, toolVars>>

\* poll() returns: to start() if start() awaits it
PollReturn(r) ==
    IF r.fromStart
    THEN Move(r, [NewPoll(TRUE) EXCEPT !.pc = "arm"])
    ELSE polls' = polls (-) SetToBag({r})

\* handleClarification(clarification), up to `await updateFeedbackStatus(id, 'processing')`
DispatchClarification(r) ==
    LET c == Head(r.clarifications)
    IN  /\ activeTasks' = activeTasks \cup {c.id}
        /\ Move(r, [r EXCEPT !.clarifications = Tail(r.clarifications),
                             !.cur = c.id,
                             !.pc = "c_processing"])

\* handleFeedback(feedback), up to its first await
DispatchFeedback(r) ==
    LET f == Head(r.feedbacks)
    IN  IF f.status = "pending"
        THEN /\ activeTasks' = activeTasks \cup {f.id}
             /\ Move(r, [r EXCEPT !.feedbacks = Tail(r.feedbacks),
                                  !.cur = f.id,
                                  !.pc = "f_analyzing"])
        ELSE IF f.status = "analyzing" \/ f.status = "executing"
        THEN /\ activeTasks' = activeTasks \cup {f.id}
             /\ Move(r, [r EXCEPT !.feedbacks = Tail(r.feedbacks),
                                  !.cur = f.id,
                                  !.pc = "f_load"])
        ELSE \* no branch taken: add, log, finally delete, return
             /\ activeTasks' = activeTasks \ {f.id}
             /\ Move(r, [r EXCEPT !.feedbacks = Tail(r.feedbacks)])

LoopStepFeedbacksFirst(r) ==
    /\ r.pc = "loop"
    /\ IF r.feedbacks # <<>> /\ canStartTask
       THEN DispatchFeedback(r)
       ELSE IF r.clarifications # <<>> /\ canStartTask
       THEN DispatchClarification(r)
       ELSE /\ PollReturn(r)
            /\ UNCHANGED activeTasks
    /\ UNCHANGED <<running, timer, liveTimers, maxConcurrent, itemType, store, stopPc, stopRet>>
    /\ UNCHANGED <<smVars, execVars, toolVars>>

\* poll(): the two for loops, from one await to the next.  A loop that breaks
\* on !canStartTask() falls through to the next loop, which breaks as well.
LoopStep(r) ==
    /\ r.pc = "loop"
    /\ IF r.clarifications # <<>> /\ canStartTask
       THEN DispatchClarification(r)
       ELSE IF r.feedbacks # <<>> /\ canStartTask
       THEN DispatchFeedback(r)
       ELSE /\ PollReturn(r)
            /\ UNCHANGED activeTasks
    /\ UNCHANGED <<running, timer, liveTimers, maxConcurrent, itemType, store, stopPc, stopRet>>
    /\ UNCHANGED <<smVars, execVars, toolVars>>

\* a step of a handler that ends with the write of `status` for its item
WriteStatus(r, status, next) ==
    /\ store' = updateFeedbackStatus(store, r.cur, status)
    /\ Move(r, [r EXCEPT !.pc = next])
    /\ UNCHANGED <<running, timer, liveTimers, maxConcurrent, activeTasks, itemType, stopPc, stopRet>>
    /\ UNCHANGED <<smVars, execVars, toolVars>>

\* FeedbackHandler.execute: its last updateStatus(status), then `return ret`
WriteResult(r, status, ret) ==
    /\ store' = updateFeedbackStatus(store, r.cur, status)
    /\ Move(r, [r EXCEPT !.pc = "h_finally", !.ret = ret])
    /\ UNCHANGED <<running, timer, liveTimers, maxConcurrent, activeTasks, itemType, stopPc, stopRet>>
    /\ UNCHANGED <<smVars, execVars, toolVars>>

\* the catch of handleClarification / handleFeedback, when its
\* `await updateFeedbackStatus(id, 'failed')` writes the status
Catch(r) == WriteStatus(r, "failed", "h_caught")

\* the positions of a handler that lie inside its try block
TryPcs == {"c_processing", "c_result", "f_analyzing", "f_executing", "f_save", "f_final"}

\* a step of the try block throws and the catch throws in its turn: its
\* `await updateFeedbackStatus(id, 'failed')` fails (saveFeedback cannot write)
\* and leaves the status as it is.  The finally deletes the id, the exception
\* leaves the handler and the loops of poll(), the catch of poll() logs it and
\* poll() returns, with no await on the way
CatchThrows(r) ==
    /\ r.pc \in TryPcs
    /\ activeTasks' = activeTasks \ {r.cur}
    /\ PollReturn(r)
    /\ UNCHANGED <<running, timer, liveTimers, maxConcurrent, itemType, store, stopPc, stopRet>>
    /\ UNCHANGED <<smVars, execVars, toolVars>>

\* handleClarification: await updateFeedbackStatus(id, 'processing')
ClarificationProcessing(r) ==
    /\ r.pc = "c_processing"
    /\ \/ WriteStatus(r, "processing", "c_result")
       \/ Catch(r)

\* handleClarification: analyze(id), then the status its result asks for;
\* catch when analyze or the write throws
ClarificationResult(r) ==
    /\ r.pc = "c_result"
    /\ \E outcome \in {"needsClarification", "clear", "throws"} :
        IF outcome = "needsClarification" THEN WriteStatus(r, "awaiting", "h_finally")
        ELSE IF outcome = "clear" THEN WriteStatus(r, "confirmed", "h_finally")
        ELSE Catch(r)

\* handleFeedback: await updateFeedbackStatus(id, 'analyzing')
FeedbackAnalyzing(r) ==
    /\ r.pc = "f_analyzing"
    /\ \/ WriteStatus(r, "analyzing", "f_load")
       \/ Catch(r)

\* FeedbackHandler.execute: loadFeedback, new FeedbackStateMachine(feedback.status)
FeedbackLoad(r) ==
    /\ r.pc = "f_load"
    /\ Move(r, [r EXCEPT !.pc = "f_executing", !.obj = store[r.cur]])
    /\ UNCHANGED <<running, timer, liveTimers, maxConcurrent, activeTasks, itemType, store,
                   stopPc, stopRet>>
    /\ UNCHANGED <<smVars, execVars, toolVars>>

\* FeedbackHandler.execute: spec, plan and tasks are generated, then
\* startExecuting() (or fail() when there is no spec, plan or task) and
\* updateStatus(getStatus()); catch of handleFeedback when a step throws
FeedbackExecuting(r) ==
    /\ r.pc = "f_executing"
    /\ \E outcome \in {"tasks", "none", "throws"} :
        IF outcome = "tasks"
        THEN WriteStatus(r, transitionStatus("feedback", r.obj, "executing"), "f_save")
        ELSE IF outcome = "none"
        THEN WriteResult(r, transitionStatus("feedback", r.obj, "failed"), "false")
        ELSE Catch(r)

\* FeedbackHandler.execute: await saveFeedback(feedback), the object loaded at
\* the start; catch of handleFeedback when it throws
FeedbackSave(r) ==
    /\ r.pc = "f_save"
    /\ \/ WriteStatus(r, r.obj, "f_final")
       \/ Catch(r)

\* FeedbackHandler.execute: taskExecutor.execute, complete() or fail() on the
\* machine that startExecuting() was called on, and the last updateStatus;
\* catch of handleFeedback when a step throws
FeedbackFinal(r) ==
    /\ r.pc = "f_final"
    /\ LET sm == transitionStatus("feedback", r.obj, "executing")
       IN  \E outcome \in {"success", "failure", "throws"} :
            IF outcome = "success"
            THEN WriteResult(r, transitionStatus("feedback", sm, "completed"), "true")
            ELSE IF outcome = "failure"
            THEN WriteResult(r, transitionStatus("feedback", sm, "failed"), "false")
            ELSE Catch(r)

\* finally: this.activeTasks.delete(id); the handler returns to the loop of poll()
HandlerFinally(r) ==
    /\ r.pc \in {"h_finally", "h_caught"}
    /\ activeTasks' = activeTasks \ {r.cur}
    /\ Move(r, [r EXCEPT !.pc = "loop", !.cur = NoItem, !.obj = "none", !.ret = "none"])
    /\ UNCHANGED <<running, timer, liveTimers, maxConcurrent, itemType, store, stopPc, stopRet>>
    /\ UNCHANGED <<smVars, execVars, toolVars>>

\* the steps of the poll() invocations in progress
PollSteps ==
    \/ \E r \in BagToSet(polls) : ArmTimer(r)
    \/ \E r \in BagToSet(polls) : ListStep(r)
    \/ \E r \in BagToSet(polls) : LoopStep(r)
    \/ \E r \in BagToSet(polls) : ClarificationProcessing(r)
    \/ \E r \in BagToSet(polls) : ClarificationResult(r)
    \/ \E r \in BagToSet(polls) : FeedbackAnalyzing(r)
    \/ \E r \in BagToSet(polls) : FeedbackLoad(r)
    \/ \E r \in BagToSet(polls) : FeedbackExecuting(r)
    \/ \E r \in BagToSet(polls) : FeedbackSave(r)
    \/ \E r \in BagToSet(polls) : FeedbackFinal(r)
    \/ \E r \in BagToSet(polls) : HandlerFinally(r)

NextSched ==
    \/ StartCall
    \/ TimerTick
    \/ PollCall
    \/ PollSteps

\* at most MaxOverlap invocations of poll() are in progress after the step
FewPolls == BagCardinality(polls') <= MaxOverlap

\* the scheduler over a store whose write of 'failed' can fail
NextSchedFaulty ==
    \/ StartCall /\ FewPolls
    \/ TimerTick /\ FewPolls
    \/ PollCall /\ FewPolls
    \/ PollSteps
    \/ \E r \in BagToSet(polls) : CatchThrows(r)

\* the scheduler with stop() as well
NextSchedStop ==
    \/ StartCall /\ FewPolls
    \/ TimerTick /\ FewPolls
    \/ PollCall /\ FewPolls
    \/ PollSteps
    \/ StopCall
    \/ StopDrain

\* the positions at which a poll() is between two awaits: the code from
\* there to the next await (the end of a handler, the next turn of the loop,
\* the return to start()) runs to completion before any other callback
SyncPcs == {"arm", "loop", "h_finally", "h_caught"}

\* the positions at which a poll() waits for the store or for a handler
AwaitPcs == {"list", "c_processing", "c_result", "f_analyzing", "f_load", "f_executing",
             "f_save", "f_final"}

\* no poll() is in the middle of a run to completion
Quiet == \A r \in BagToSet(polls) : r.pc \notin SyncPcs

\* the code that follows an await that has ended
SyncSteps ==
    \/ \E r \in BagToSet(polls) : ArmTimer(r)
    \/ \E r \in BagToSet(polls) : LoopStep(r)
    \/ \E r \in BagToSet(polls) : HandlerFinally(r)

\* the await of a poll() at position p that handles item i (NoItem: the list) ends
AwaitStep(p, i) ==
    \E r \in BagToSet(polls) :
        /\ r.pc = p
        /\ r.cur = i
        /\ \/ ListStep(r)
           \/ ClarificationProcessing(r)
           \/ ClarificationResult(r)
           \/ FeedbackAnalyzing(r)
           \/ FeedbackLoad(r)
           \/ FeedbackExecuting(r)
           \/ FeedbackSave(r)
           \/ FeedbackFinal(r)

\* the scheduler under the callback scheduling of the host: a callback runs to
\* its next await before a timer, a call or another await's end is served
NextSchedFair ==
    \/ Quiet /\ StartCall /\ FewPolls
    \/ Quiet /\ TimerTick /\ FewPolls
    \/ Quiet /\ \E p \in AwaitPcs, i \in Items \cup {NoItem} : AwaitStep(p, i)
    \/ Quiet /\ \E r \in BagToSet(polls) : CatchThrows(r)
    \/ SyncSteps

\* the interval timer fires as long as it is armed, a callback that has begun
\* goes on, and every await of every handler invocation ends: an await that
\* is pending stays pending while other callbacks run and ends at a moment
\* when none of them is running
FairSched ==
    /\ WF_vars(TimerTick /\ FewPolls)
    /\ WF_vars(SyncSteps)
    /\ \A p \in AwaitPcs, i \in Items \cup {NoItem} : WF_vars(AwaitStep(p, i))

(***************************************************************************)
(* Specifications: each drives one component and leaves the others as     *)
(* constructed                                                             *)
(***************************************************************************)
SMIdle ==
    /\ smType = "task"
    /\ currentStatus = "pending"
    /\ statusHistory = recordState(<<>>, "pending")
    /\ smRet = Ret("new", "pending", TRUE, FALSE, FALSE)

SortIdle ==
    /\ tasks = <<>>
    /\ sorted = <<>>
    /\ sortPasses = 0
    /\ execPc = "idle"

ExecIdle == SortIdle /\ RunIdle

SchedIdle ==
    /\ running = FALSE
    /\ timer = FALSE
    /\ liveTimers = 0
    /\ maxConcurrent = 1
    /\ activeTasks = {}
    /\ itemType = [i \in Items |-> "feedback"]
    /\ store = [i \in Items |-> "pending"]
    /\ polls = EmptyBag
    /\ stopPc = "idle"
    /\ stopRet = "none"

ToolIdle ==
    /\ toolsConfig = [present |-> FALSE, tools |-> <<>>, failureCooldownMs |-> 1]
    /\ toolStatus = [n \in ToolNames |-> NoRecord]
    /\ now = 1
    /\ call = NoCall
    /\ MarkIdle

\* a state machine of any domain, constructed with any initial status
InitSM == SMInit /\ ExecIdle /\ SchedIdle /\ ToolIdle

\* a bucket handed to executeTaskGroup
InitSort == ExecInit /\ SMIdle /\ SchedIdle /\ ToolIdle

\* a batch handed to TaskExecutor.execute
InitExec == RunInit /\ SortIdle /\ SMIdle /\ SchedIdle /\ ToolIdle

\* a scheduler constructed over a store of pending items
InitSched == SchedInit /\ SMIdle /\ ExecIdle /\ ToolIdle

\* an adapter over any tools.json and an empty status.json
InitTool == ToolInit /\ SMIdle /\ ExecIdle /\ SchedIdle

SpecSM == InitSM /\ [][NextSM]_vars

SpecSMStrict == InitSM /\ [][NextSMStrict]_vars

SpecSort == InitSort /\ [][NextSort]_vars

SpecExec == InitExec /\ [][NextExec]_vars

SpecTool == InitTool /\ [][NextTool]_vars

SpecSched == InitSched /\ [][NextSched]_vars

SpecSchedFaulty == InitSched /\ [][NextSchedFaulty]_vars

SpecSchedStop == InitSched /\ [][NextSchedStop]_vars

\* two execute() calls over an empty status.json
InitToolRace == ToolIdle /\ SMIdle /\ ExecIdle /\ SchedIdle

SpecToolRace == InitToolRace /\ [][NextToolRace]_vars

SpecSchedFair == InitSched /\ [][NextSchedFair]_vars /\ FairSched

(***************************************************************************)
(* Properties                                                              *)
(***************************************************************************)
\* b is a successor of a in the transition table of the domain
IsEdge(type, a, b) ==
    LET table == IF type = "clarification" THEN CLARIFICATION_TRANSITIONS
                 ELSE IF type = "feedback" THEN FEEDBACK_TRANSITIONS
                 ELSE TASK_TRANSITIONS
    IN  a \in DOMAIN table /\ \E i \in 1..Len(table[a]) : table[a][i] = b

\* the step is a call transition(t)
IsTransitionCall == smRet'.op = "transition"

\* C1: under overlapping poll() invocations no two handler invocations for
\* the same work-item id are in flight at once.
C1_NoDoubleDispatch == \A id \in Items : InFlightFor(id) <= 1

\* C2: under overlapping poll() invocations the number of handler
\* invocations in flight never exceeds maxConcurrent.
C2_InFlightWithinBudget == InFlight <= maxConcurrent

\* C3: with transition() only, every change of the current status follows an
\* edge of the domain's table, and consecutive history entries are edges.
C3_OnlyTableEdges ==
    /\ [](\A i \in 1..(Len(statusHistory) - 1) :
            IsEdge(smType, statusHistory[i], statusHistory[i + 1]))
    /\ [][currentStatus' # currentStatus => IsEdge(smType, currentStatus, currentStatus')]_vars

C3_Witness ==
    /\ smRet.op = "transition"
    /\ smRet.success
    /\ Len(statusHistory) >= 3
    /\ statusHistory[Len(statusHistory)] = currentStatus

\* C4: transition(t) to a target that differs from the current status and is
\* not one of its successors returns success = false with an error and
\* leaves the current status and the history as they were.
C4_InvalidTransitionRejected ==
    [][(IsTransitionCall /\ smRet'.target # currentStatus
            /\ ~IsEdge(smType, currentStatus, smRet'.target))
        => (/\ ~smRet'.success
            /\ smRet'.error
            /\ currentStatus' = currentStatus
            /\ statusHistory' = statusHistory)]_vars

C4_Witness ==
    /\ smRet.op = "transition"
    /\ ~smRet.success
    /\ smRet.error
    /\ smRet.target # currentStatus
    /\ Len(statusHistory) >= 2

\* C5: transition(s) while the current status is s succeeds, keeps the status
\* and appends nothing to the history, for terminal and other statuses alike.
C5_SameStatusIsNoOp ==
    [][(IsTransitionCall /\ smRet'.target = currentStatus)
        => (/\ smRet'.success
            /\ ~smRet'.error
            /\ currentStatus' = currentStatus
            /\ statusHistory' = statusHistory)]_vars

C5_Witness ==
    /\ smRet.op = "transition"
    /\ smRet.success
    /\ smRet.target = currentStatus
    /\ isTerminalStatus(currentStatus)
    /\ Len(statusHistory) = 1

\* C6: in every domain a machine in `failed` accepts transition(pending), and
\* pending is the only status transition() reaches from failed.
C6_FailedRetriesToPending ==
    [][(IsTransitionCall /\ currentStatus = "failed")
        => (/\ smRet'.target = "pending" => (smRet'.success /\ currentStatus' = "pending")
            /\ currentStatus' \in {"failed", "pending"})]_vars

C6_Witness ==
    /\ smRet.op = "transition"
    /\ smRet.success
    /\ currentStatus = "pending"
    /\ Len(statusHistory) >= 2
    /\ statusHistory[Len(statusHistory) - 1] = "failed"
    /\ smType = "task"

\* C7: for every status of a domain's table, isTerminal() is true exactly
\* when the table maps the status to an empty successor set.
C7_TerminalIffNoSuccessor ==
    smRet.op = "isTerminal"
        => (smRet.value <=> ~\E t \in StatusesOf(smType) : IsEdge(smType, smRet.target, t))

C7_Witness ==
    /\ smRet.op = "isTerminal"
    /\ smRet.value
    /\ smRet.target = "expired"

\* C8: once the current status is confirmed, cancelled, expired or completed,
\* every transition(t) to another status fails and the status changes only
\* by forceTransition().
C8_TerminalAbsorbing ==
    [][(currentStatus \in {"confirmed", "cancelled", "expired", "completed"}
            /\ smRet'.op # "forceTransition")
        => (/\ currentStatus' = currentStatus
            /\ (IsTransitionCall /\ smRet'.target # currentStatus) => ~smRet'.success)]_vars

C8_Witness ==
    /\ smRet.op = "transition"
    /\ ~smRet.success
    /\ currentStatus = "expired"
    /\ smRet.target = "pending"

\* C9: forceTransition(t) succeeds from any status, makes t the current
\* status whatever the table says and appends exactly one history entry for
\* t, also when t is the current status.
C9_ForceAlwaysCommits ==
    [][smRet'.op = "forceTransition"
        => (/\ smRet'.success
            /\ currentStatus' = smRet'.target
            /\ statusHistory' = Append(statusHistory, smRet'.target))]_vars

C9_Witness ==
    /\ smRet.op = "forceTransition"
    /\ Len(statusHistory) >= 3
    /\ statusHistory[Len(statusHistory)] = statusHistory[Len(statusHistory) - 1]
    /\ ~IsEdge(smType, statusHistory[Len(statusHistory) - 2], currentStatus)

\* the ids of the tasks of a list
IdsOf(ts) == {ts[i].id : i \in 1..Len(ts)}

\* dependsOn refers to tasks of the bucket only
DepsInBucket(ts) == \A i \in 1..Len(ts) : ts[i].dependsOn \subseteq IdsOf(ts)

\* dependsOn is acyclic: every non-empty set of tasks has one that depends on none of them
DepsAcyclic(ts) ==
    \A S \in SUBSET (1..Len(ts)) :
        S # {} => \E i \in S : \A j \in S : ts[j].id \notin ts[i].dependsOn

\* C10: for a bucket whose dependsOn is acyclic and stays inside the bucket,
\* the dependency sort places every task after all the tasks it depends on.
C10_SortRespectsDependencies ==
    (execPc = "sorted" /\ DepsInBucket(tasks) /\ DepsAcyclic(tasks))
        => (/\ Len(sorted) = Len(tasks)
            /\ \A i \in 1..Len(sorted) : \A j \in 1..Len(sorted) :
                    sorted[j].id \in sorted[i].dependsOn => j < i)

C10_Witness ==
    /\ execPc = "sorted"
    /\ DepsInBucket(tasks)
    /\ DepsAcyclic(tasks)
    /\ Len(tasks) = 3
    /\ tasks[3].dependsOn = {1, 2}
    /\ tasks[1].dependsOn = {2}
    /\ sorted[1].id = 2

\* the tasks of bucket g that were run and ended in failed, by position in `sorted`
FailedAt(g) ==
    {k \in 1..Len(run[g].sorted) :
        run[g].sorted[k] \in started /\ batch[run[g].sorted[k]].status = "failed"}

\* C11: once a task of a bucket has been run and ended in failed, no task
\* later in the bucket's order is started, every later task keeps its status
\* and the bucket returns false (as soon as the failure is saved).
C11_FailFastWithinBucket ==
    /\ [](\A g \in Projects : \A k \in FailedAt(g) :
            /\ \/ run[g].pc = "done" /\ run[g].result = FALSE
               \/ run[g].pc = "write2" /\ run[g].i = k /\ ~run[g].ok
            /\ \A j \in (k + 1)..Len(run[g].sorted) : run[g].sorted[j] \notin started)
    /\ [][\A g \in Projects : \A k \in FailedAt(g) :
            \A j \in (k + 1)..Len(run[g].sorted) :
                batch'[run[g].sorted[j]].status = batch[run[g].sorted[j]].status]_vars

C11_Witness ==
    /\ runPc = "done"
    /\ Len(run["backend"].sorted) = 3
    /\ FailedAt("backend") = {1}
    /\ \A j \in 2..3 : LET t == batch[run["backend"].sorted[j]]
                       IN  t.status = "pending" /\ t.dependsOn = {}

\* C12: a failure in one bucket leaves the other bucket's run alone: every
\* bucket runs to its end, a bucket returns false exactly when one of its own
\* tasks was run and failed, a bucket that returns true has gone through all
\* of its tasks, and execute returns the conjunction of the two outcomes.
C12_BucketsIndependent ==
    /\ \A g \in Projects :
        run[g].pc = "done" =>
            /\ run[g].result = (FailedAt(g) = {})
            /\ run[g].result =>
                \A k \in 1..Len(run[g].sorted) :
                    batch[run[g].sorted[k]].status # "in_progress"
                        \/ run[g].sorted[k] \notin started
    /\ runPc = "done" =>
        /\ \A g \in Projects : run[g].pc = "done"
        /\ allSuccess = (run["backend"].result /\ run["frontend"].result)

C12_Witness ==
    /\ runPc = "done"
    /\ ~allSuccess
    /\ FailedAt("backend") # {}
    /\ run["frontend"].result
    /\ Len(run["frontend"].sorted) = 2
    /\ \A k \in 1..2 : /\ run["frontend"].sorted[k] \in started
                       /\ batch[run["frontend"].sorted[k]].status = "completed"

\* the pool entries invoked by the call whose outcome was in S
InvokedWith(S) == {k \in 1..Len(call.invoked) : call.outcomes[call.invoked[k]] \in S}

\* C13: when the first backend tried fails with a quota-pattern text and the
\* next backend of the pool exits with code 0, execute returns the second
\* backend's result and the first backend's record has available = false.
C13_FailoverToNextBackend ==
    (/\ call.pc = "done"
     /\ call.preferredTool = "none"
     /\ Len(call.invoked) >= 1
     /\ call.outcomes[call.invoked[1]] = "quota"
     /\ call.invoked[1] < Len(call.toolPool)
     /\ call.outcomes[call.invoked[1] + 1] = "ok")
        => (/\ call.ret.kind = "returned"
            /\ call.ret.at = call.invoked[1] + 1
            /\ call.ret.exitCode = 0
            /\ ~toolStatus[call.toolPool[call.invoked[1]].name].available)

PoolWithoutCooling(config, statuses, t) ==
    LET enabled == SelectSeq(config.tools, LAMBDA c : c.enabled)
        usable == SelectSeq(enabled,
                    LAMBDA c : ~inCooldown(statuses[c.name], t, config.failureCooldownMs))
        entry(c) ==
            [name |-> c.name,
             available |-> statuses[c.name].available,
             inCooldown |-> FALSE,
             priority |-> priorityOf(config, c.name),
             responseTimeMs |-> statuses[c.name].responseTimeMs]
    IN  SortTools([k \in 1..Len(usable) |-> entry(usable[k])])

\* C15: an enabled backend whose last failure is less than failureCooldownMs
\* before the selection is not in the pool execute iterates and is not
\* invoked in that call; every other enabled backend is in the pool.
C15_CooldownExcludes ==
    /\ [](\A k \in 1..Len(call.invoked) : ~call.toolPool[call.invoked[k]].inCooldown)
    /\ [][(call.pc \in {"idle", "done"} /\ call'.pc # call.pc /\ toolsConfig.present)
            => call'.toolPool = PoolWithoutCooling(toolsConfig, toolStatus, now)]_vars

\* C16: within one poll() invocation handling is sequential: a handler is
\* started only by an invocation that is back in its loop (its previous
\* handler has returned), an invocation handles a feedback only when no
\* clarification of its list is left, and with maxConcurrent = 1 at most one
\* handler is in flight at any time.
C16_SequentialWithinPoll ==
    /\ [](\A r \in BagToSet(polls) :
            /\ (r.pc \in HandlerPcs) <=> (r.cur # NoItem)
            /\ (r.cur # NoItem /\ itemType[r.cur] = "feedback") => r.clarifications = <<>>)
    /\ [](maxConcurrent = 1 => InFlight <= 1)
    /\ [][InFlight' > InFlight =>
            \E r \in BagToSet(polls) :
                /\ r.pc = "loop"
                /\ CopiesIn(r, polls') < CopiesIn(r, polls)]_vars

C16_Witness ==
    /\ maxConcurrent = 1
    /\ itemType[1] = "clarification"
    /\ itemType[2] = "feedback"
    /\ store[1] \in {"awaiting", "confirmed"}
    /\ \E r \in BagToSet(polls) :
        /\ r.fromStart
        /\ r.cur = 2
        /\ r.pc = "f_executing"
        /\ r.clarifications = <<>>
        /\ BagCardinality(polls) = 1

\* C17: stop() returns only in a state where the active set is empty.
C17_StopReturnsDrained == stopRet # "busy"

\* C18: execute returns normally only with the result of the invocation it
\* made last, which exited with code 0; otherwise it raises, and the error
\* carries the text of the last failure observed (none when nothing failed).
C18_ReturnsOnlySuccess ==
    call.pc = "done" =>
        /\ call.ret.kind \in {"returned", "raised"}
        /\ call.ret.kind = "returned" =>
            /\ Len(call.invoked) >= 1
            /\ call.ret.at = call.invoked[Len(call.invoked)]
            /\ call.outcomes[call.ret.at] = "ok"
            /\ call.ret.exitCode = 0
            /\ call.ret.tool = call.toolPool[call.ret.at].name
        /\ call.ret.kind = "raised" =>
            /\ InvokedWith({"ok"}) = {}
            /\ IF call.invoked = <<>>
               THEN call.ret.lastError = NoError
               ELSE LET last == call.invoked[Len(call.invoked)]
                    IN  call.ret.lastError = [at |-> last, text |-> call.outcomes[last]]
        /\ InvokedWith({"ok"}) # {} => call.ret.kind = "returned"

C18_Witness ==
    /\ call.pc = "done"
    /\ call.ret.kind = "raised"
    /\ call.ret.error = "All tools failed"
    /\ call.invoked = <<1, 2>>
    /\ call.ret.lastError = [at |-> 2, text |-> "quota"]

\* the step ends the failed handling of r's item: r leaves the catch after
\* its write, or leaves the try block with its handler gone
FailureEnds(r) ==
    /\ r.pc \in TryPcs \cup {"h_caught"}
    /\ CopiesIn(r, polls') < CopiesIn(r, polls)
    /\ InFlightFor(r.cur)' < InFlightFor(r.cur)

\* C19: when the handling of an item fails (a status update or the external
\* handler throws), at the end of that handling the persisted status of the
\* item is failed and its id is not in the active set.
C19_FailureEndsFailed ==
    [][\A r \in BagToSet(polls) :
         FailureEnds(r) => store'[r.cur] = "failed" /\ r.cur \notin activeTasks']_vars

\* C20: when the handling of an item fails while items of the tick are left,
\* the same poll() invocation is back in its loop with those items.
C20_FailureKeepsTick ==
    [][\A r \in BagToSet(polls) :
         (FailureEnds(r) /\ (r.clarifications # <<>> \/ r.feedbacks # <<>>)) =>
            LET r2 == [r EXCEPT !.pc = "loop", !.cur = NoItem, !.obj = "none"]
            IN  CopiesIn(r2, polls') > CopiesIn(r2, polls)]_vars

\* the position of the task with this id in a list of tasks
PosOf(ts, id) == CHOOSE k \in 1..Len(ts) : ts[k].id = id

\* C21: two tasks of a bucket that have no dependencies come out of the sort
\* in the order of the input list.
C21_ReadyTasksInListOrder ==
    execPc = "sorted" =>
        \A i \in 1..Len(tasks) : \A j \in 1..Len(tasks) :
            (i < j /\ tasks[i].dependsOn = {} /\ tasks[j].dependsOn = {})
                => PosOf(sorted, tasks[i].id) < PosOf(sorted, tasks[j].id)

\* the ids a dependency order can place: the least set that holds every task
\* whose dependsOn lies inside it
RECURSIVE Placeable(_, _)
Placeable(ts, P) ==
    LET N == P \cup {ts[i].id : i \in {k \in 1..Len(ts) : ts[k].dependsOn \subseteq P}}
    IN  IF N = P THEN P ELSE Placeable(ts, N)

Unplaceable(ts) == IdsOf(ts) \ Placeable(ts, {})

\* C24: the sort ends after at most 2 * |tasks| passes, its output holds
\* every task of the input exactly once, and the tasks that cannot be placed
\* are its last entries, in the order of the input list.
C24_SortTerminatesWithPermutation ==
    execPc = "sorted" =>
        LET n == Len(tasks)
            u == Cardinality(Unplaceable(tasks))
        IN  /\ sortPasses <= 2 * n
            /\ Len(sorted) = n
            /\ \A i \in 1..n : \E k \in 1..n : sorted[k] = tasks[i]
            /\ \A k \in 1..n : (k > n - u) <=> (sorted[k].id \in Unplaceable(tasks))
            /\ \A k \in 1..n : \A m \in 1..n :
                (n - u < k /\ k < m) => PosOf(tasks, sorted[k].id) < PosOf(tasks, sorted[m].id)

C24_Witness ==
    /\ execPc = "sorted"
    /\ Len(tasks) = 3
    /\ tasks[1].dependsOn = {3}
    /\ tasks[2].dependsOn = {}
    /\ tasks[3].dependsOn = {1}
    /\ sortPasses = 6
    /\ sorted = <<tasks[2], tasks[1], tasks[3]>>

\* the bucket a task of the batch is put in, and the tasks of a bucket
BucketOf(id) == IF batch[id].project = "frontend" THEN "frontend" ELSE "backend"

BucketIds(g) == IdsOf(groupTasksByProject(batch, g))

\* the tasks of bucket g the dependency sort cannot place
UnplacedIn(g) == Unplaceable(groupTasksByProject(batch, g))

\* every id in the dependsOn of the task names a completed task of its bucket
DepsCompletedInBucket(id) ==
    \A d \in batch[id].dependsOn :
        /\ d \in BucketIds(BucketOf(id))
        /\ batch[d].status = "completed"

\* C22 as stated: a bucket that ran to its end without a failure has started
\* every pending task the sort could not place, so none of them is still
\* pending.
C22_UnplacedStillRun ==
    \A g \in Projects :
        (run[g].pc = "done" /\ run[g].result)
            => \A u \in UnplacedIn(g) : batch[u].status # "pending"

\* C22, amended: a task the sort cannot place is gated like any other: it is
\* started only when every id in its dependsOn names a completed task of its
\* bucket, so one that depends on an id absent from the bucket is never
\* started.
C22_UnplacedGated ==
    \A g \in Projects : \A u \in UnplacedIn(g) :
        /\ u \in started => DepsCompletedInBucket(u)
        /\ (\E d \in batch[u].dependsOn : d \notin BucketIds(g)) => u \notin started

C22_Witness ==
    /\ runPc = "done"
    /\ \E g \in Projects : \E u \in UnplacedIn(g) : \E w \in UnplacedIn(g) :
        /\ u \in started
        /\ batch[u].status = "completed"
        /\ w \notin started
        /\ batch[w].status = "pending"
        /\ ForeignId \in batch[w].dependsOn

\* C23: a step that moves a task to in_progress finds the task pending and
\* every id in its dependsOn naming a completed task of the same bucket.
C23_DependencyGate ==
    [][\A id \in DOMAIN batch :
        (batch'[id].status = "in_progress" /\ batch[id].status # "in_progress")
            => /\ batch[id].status = "pending"
               /\ DepsCompletedInBucket(id)]_vars

C23_Witness ==
    \E id \in started :
        /\ batch[id].status = "in_progress"
        /\ batch[id].dependsOn # {}
        /\ batch[id].dependsOn \subseteq started
        /\ id \in UnplacedIn(BucketOf(id))

\* C25: a task that is not started keeps its status, and a bucket none of
\* whose started tasks failed goes through its whole list and returns true,
\* whatever number of its tasks were skipped.
C25_SkipIsNotFailure ==
    /\ [][\A id \in DOMAIN batch :
            id \notin started' => batch'[id].status = batch[id].status]_vars
    /\ [](\A g \in Projects :
            (run[g].pc = "done" /\ FailedAt(g) = {})
                => /\ run[g].result
                   /\ run[g].i = Len(run[g].sorted))

C25_Witness ==
    /\ runPc = "done"
    /\ allSuccess
    /\ \E g \in Projects :
        /\ Len(run[g].sorted) = 3
        /\ run[g].sorted[1] \notin started
        /\ batch[run[g].sorted[1]].status = "failed"
        /\ run[g].sorted[2] \in started
        /\ batch[run[g].sorted[2]].status = "completed"
        /\ run[g].sorted[3] \notin started
        /\ batch[run[g].sorted[3]].status = "pending"

\* the task depends on a task that is in the other bucket
CrossDep(id) ==
    \E d \in batch[id].dependsOn : d \in DOMAIN batch /\ BucketOf(d) # BucketOf(id)

\* C26: a task that depends on a task of the other bucket is never started
\* and keeps its status, and execute() still returns true when no started
\* task failed.
C26_CrossBucketNeverStarted ==
    /\ [](\A id \in DOMAIN batch : CrossDep(id) => id \notin started)
    /\ [][\A id \in DOMAIN batch :
            CrossDep(id) => batch'[id].status = batch[id].status]_vars
    /\ [](runPc = "done" => allSuccess = (\A g \in Projects : FailedAt(g) = {}))

C26_Witness ==
    /\ runPc = "done"
    /\ allSuccess
    /\ \E id \in DOMAIN batch :
        /\ CrossDep(id)
        /\ batch[id].status = "pending"
        /\ \A d \in batch[id].dependsOn : d \in started /\ batch[d].status = "completed"

\* C27: a record whose available flag is false (set by a quota failure)
\* becomes available again only in a step that records a successful
\* invocation of that backend.
C27_QuotaFlagSticks ==
    [][\A n \in ToolNames :
        (toolStatus[n].exists /\ ~toolStatus[n].available /\ toolStatus'[n].available)
            => /\ call'.pc = "done"
               /\ call'.ret.kind = "returned"
               /\ call'.ret.tool = n]_vars

\* C28: the records of status.json change only in a step that records the
\* outcome of an invocation, and only the record of the backend invoked;
\* selecting the pool and the passing of time leave every record as it was,
\* also when the selection finds a backend in its cooldown.
C28_SelectionWritesNothing ==
    [][toolStatus' # toolStatus =>
        /\ call.pc = "invoke"
        /\ Len(call'.invoked) = Len(call.invoked) + 1
        /\ \A n \in ToolNames :
            toolStatus'[n] # toolStatus[n] => n = call.toolPool[call.at].name]_vars

C28_Witness ==
    /\ call.pc = "invoke"
    /\ call.invoked = <<>>
    /\ now > 1
    /\ \E k \in 1..Len(call.toolPool) :
        /\ call.toolPool[k].inCooldown
        /\ ~call.toolPool[k].available
        /\ toolStatus[call.toolPool[k].name].available
        /\ toolStatus[call.toolPool[k].name].failureCount = 1

\* the priority config/tools.json gives the backend
ConfiguredPriority(name) ==
    Head(SelectSeq(toolsConfig.tools, LAMBDA t : t.name = name)).priority

\* C29: in the pool execute iterates, an available backend never comes after
\* an unavailable one, and of two backends of equal availability and
\* different configured priorities the one with the lower number comes first.
C29_PoolOrder ==
    \A i \in 1..Len(call.toolPool) : \A j \in 1..Len(call.toolPool) :
        LET a == call.toolPool[i]
            b == call.toolPool[j]
        IN  (i < j /\ a.name # b.name) =>
                /\ b.available => a.available
                /\ (a.available = b.available
                    /\ ConfiguredPriority(a.name) # ConfiguredPriority(b.name))
                        => ConfiguredPriority(a.name) < ConfiguredPriority(b.name)

\* the invocation r is at this position after the step and was not before
Arrives(r) == CopiesIn(r, polls') > CopiesIn(r, polls)

\* C30: the id of an item is in the active set for as long as a handler
\* invocation for it is in flight, and a handler invocation goes on to the
\* external handler (analyze, FeedbackHandler.execute) of an item it took as
\* pending only in a step that leaves the in-progress status in the store.
C30_WrittenBeforeHandlerAndActive ==
    /\ [](\A r \in Handlers : r.cur \in activeTasks)
    /\ [][\A r \in BagToSet(polls') :
            /\ (r.pc = "c_result" /\ Arrives(r)) => store'[r.cur] = "processing"
            /\ (r.pc = "f_load" /\ Arrives(r)
                /\ [r EXCEPT !.pc = "f_analyzing"] \in BagToSet(polls))
                    => store'[r.cur] = "analyzing"]_vars

\* the step is a transition() call that succeeds and changes the status, or a
\* forceTransition() call
IsRecordedCall ==
    \/ smRet'.op = "forceTransition"
    \/ smRet'.op = "transition" /\ smRet'.success /\ currentStatus' # currentStatus

\* C40: the history is never empty and its last entry is the current status;
\* every step keeps the entries there are, and adds exactly one entry when it
\* is a successful status-changing transition() or a forceTransition(), none
\* otherwise (so the first entry stays the initial status).
C40_HistoryAppendOnly ==
    /\ [](/\ Len(statusHistory) >= 1
          /\ statusHistory[Len(statusHistory)] = currentStatus)
    /\ [][/\ Len(statusHistory') = Len(statusHistory) + (IF IsRecordedCall THEN 1 ELSE 0)
          /\ SubSeq(statusHistory', 1, Len(statusHistory)) = statusHistory]_vars

C40_Witness ==
    /\ Len(statusHistory) = 4
    /\ smRet.op = "forceTransition"
    /\ statusHistory[4] = statusHistory[3]
    /\ IsEdge(smType, statusHistory[1], statusHistory[2])
    /\ ~IsEdge(smType, statusHistory[2], statusHistory[3])

\* C31: every step that changes the persisted status of an item leaves a status
\* other than completed and confirmed, and is an edge of the table of the
\* item's type, unless it is the write of failed by the catch of the handler.
C31_StoreFollowsTable ==
    [][\A i \in Items :
         store'[i] # store[i] =>
            /\ store[i] \notin {"completed", "confirmed"}
            /\ \/ IsEdge(itemType[i], store[i], store'[i])
               \/ /\ store'[i] = "failed"
                  /\ \E r \in BagToSet(polls') :
                        r.pc = "h_caught" /\ r.cur = i /\ Arrives(r)]_vars

\* C32: at the step in which FeedbackHandler.execute returns, the persisted
\* status of its feedback is completed when it returns true and failed when
\* it returns false.
C32_StatusMatchesResult ==
    [][\A r \in BagToSet(polls') :
         (r.pc = "h_finally" /\ r.ret # "none" /\ Arrives(r)) =>
            store'[r.cur] = IF r.ret = "true" THEN "completed" ELSE "failed"]_vars

\* C34: while the scheduler is not running and no stop() is in progress, the
\* active set is empty and no handler invocation is in flight.
C34_StoppedStaysIdle ==
    (~running /\ stopPc = "idle") => (activeTasks = {} /\ InFlight = 0)

\* C35: an id is in the active set exactly when at least one handler
\* invocation for it is in flight.
C35_ActiveIffInFlight ==
    \A id \in Items : (id \in activeTasks) <=> (InFlightFor(id) >= 1)

\* C36: the active set never holds more ids than maxConcurrent.
C36_ActiveSetWithinBudget == Cardinality(activeTasks) <= maxConcurrent

\* the budget is used up while a poll() still has items of its tick left
C36_Witness ==
    /\ Cardinality(activeTasks) = maxConcurrent
    /\ InFlight >= maxConcurrent
    /\ \E r \in BagToSet(polls) :
          r.pc = "loop" /\ (r.clarifications # <<>> \/ r.feedbacks # <<>>)

\* C37: at most one interval timer is armed, and none while the scheduler is
\* not running.
C37_OneTimerWhileRunning ==
    /\ liveTimers <= 1
    /\ liveTimers > 0 => running

\* C33: while the scheduler runs, an item that is pending in the store is
\* eventually handed to its handler.
C33_PendingEventuallyDispatched ==
    \A i \in Items : (running /\ store[i] = "pending") ~> (InFlightFor(i) > 0)

\* C38: when no execute() call is marking a tool, the persisted failureCount
\* of every tool is the number of its failed invocations since its last
\* success; and the write that records a success leaves failureCount 0 and
\* available true.
C38_NoToolUpdateLost ==
    /\ []((\A c \in Callers : marking[c].pc = "idle") =>
            \A n \in ToolNames : toolStatus[n].failureCount = failedRuns[n])
    /\ [][\A c \in Callers :
            (marking[c].pc = "save" /\ marking'[c].pc = "idle"
             /\ marking[c].updates.lastSuccess # 0) =>
                /\ toolStatus'[marking[c].tool].failureCount = 0
                /\ toolStatus'[marking[c].tool].available]_vars

\* C39: when TaskExecutor.execute has returned, tasks.json records for every
\* task of the batch the status of the in-memory task.
C39_SnapshotMatchesMemory ==
    runPc = "done" => \A id \in DOMAIN batch : savedTasks[id] = batch[id].status


====
